---- MODULE Spec2Model ----
(***************************************************************************)
(* A model of gluoncv/utils/bbox.py: axis-aligned box IOU, polygon IOU,    *)
(* Chebyshev polygon reconstruction, box format conversion and clipping.   *)
(*                                                                         *)
(* Every function of the module is pure.  A behaviour is one call: Init    *)
(* draws the function and its arguments from bounded sets, the actions     *)
(* run the function's body (polygon_iou, the one loop with a handler, in   *)
(* one step per loop iteration) and leave the outcome in `result`.         *)
(*                                                                         *)
(* Numbers are integers (pixel coordinates).  A quotient is kept as an     *)
(* exact fraction <<num, den>> in lowest terms; a zero denominator stands  *)
(* for the nan and inf that numpy's float division by zero produces.       *)
(***************************************************************************)
EXTENDS Integers, Sequences, FiniteSets, TLC

VARIABLES fn, arg, pc, result, n, m, polygon_ious, topo

vars == <<fn, arg, pc, result, n, m, polygon_ious, topo>>

(***************************************************************************)
(* Bounds of the model.                                                    *)
(***************************************************************************)
MaxX == 2
MaxY == 1
MaxRows == 4
MaxCols == 5

(***************************************************************************)
(* Arithmetic helpers.                                                     *)
(***************************************************************************)
Abs(x) == IF x < 0 THEN -x ELSE x

Maximum(x, y) == IF x >= y THEN x ELSE y

Minimum(x, y) == IF x <= y THEN x ELSE y

RECURSIVE Gcd(_, _)
Gcd(x, y) == IF y = 0 THEN Abs(x) ELSE Gcd(y, x % y)

\* what float division by zero yields: nan for 0/0, +-inf otherwise
NaN == <<0, 0>>

Inf == <<1, 0>>

NegInf == <<-1, 0>>

\* float division x / y of numpy (true division)
Divide(x, y) ==
    IF y = 0
    THEN IF x = 0 THEN NaN ELSE IF x > 0 THEN Inf ELSE NegInf
    ELSE LET g == Gcd(Abs(x), Abs(y))
             s == IF y < 0 THEN -1 ELSE 1
         IN  <<(s * x) \div g, (s * y) \div g>>

Zero == <<0, 1>>

One == <<1, 1>>

None == [kind |-> "none"]

Return(v) == [kind |-> "return", value |-> v]

Raise(e) == [kind |-> "raise", exc |-> e]

(***************************************************************************)
(* numpy arrays: a 2-D array is its rows, a 1-D array its elements.        *)
(***************************************************************************)
Array2(rws, c) == [kind |-> "ndarray", ndim |-> 2, rows |-> Len(rws), cols |-> c, data |-> rws]

Array1(xs) == [kind |-> "ndarray", ndim |-> 1, size |-> Len(xs), data |-> xs]

Table(rws) == Array2(rws, 4)

Tuple(xs) == [kind |-> "tuple", data |-> xs]

Size(a) == IF a.ndim = 1 THEN a.size ELSE a.rows * a.cols

\* a[:, lo:hi] of a 2-D array (python slices stop at the array's edge)
ColSlice(a, lo, hi) ==
    LET h == Minimum(hi, a.cols)
        w == IF h > lo THEN h - lo ELSE 0
    IN  Array2([i \in 1..a.rows |-> [j \in 1..w |-> a.data[i][lo + j]]], w)

\* whether (R, c1) and (R, c2) broadcast together
Broadcasts(a, b) == a.cols = b.cols \/ a.cols = 1 \/ b.cols = 1

BroadcastCols(a, b) == IF a.cols = 1 THEN b.cols ELSE a.cols

At(a, i, j) == IF a.cols = 1 THEN a.data[i][1] ELSE a.data[i][j]

\* a + b of two 2-D arrays with the same number of rows
AddArrays(a, b) ==
    LET w == BroadcastCols(a, b)
    IN  Array2([i \in 1..a.rows |-> [j \in 1..w |-> At(a, i, j) + At(b, i, j)]], w)

\* a - b of two 2-D arrays with the same number of rows
SubArrays(a, b) ==
    LET w == BroadcastCols(a, b)
    IN  Array2([i \in 1..a.rows |-> [j \in 1..w |-> At(a, i, j) - At(b, i, j)]], w)

\* np.hstack of two 2-D arrays with the same number of rows
HStack2(a, b) ==
    Array2([i \in 1..a.rows |-> a.data[i] \o b.data[i]], a.cols + b.cols)

\* np.hstack of four 1-D arrays: one 1-D array, the four laid end to end
HStack1(x1, y1, x2, y2) == Array1(x1 \o y1 \o x2 \o y2)

(***************************************************************************)
(* bbox_iou                                                                *)
(***************************************************************************)
\* area_i without the (tl < br).all() mask
area_i_unmasked(ra, rb, offset) ==
    LET tl == <<Maximum(ra[1], rb[1]), Maximum(ra[2], rb[2])>>
        br == <<Minimum(ra[3], rb[3]), Minimum(ra[4], rb[4])>>
    IN  (br[1] - tl[1] + offset) * (br[2] - tl[2] + offset)

\* np.prod(br - tl + offset) * (tl < br).all() for one pair of boxes
area_i(ra, rb, offset) ==
    LET tl == <<Maximum(ra[1], rb[1]), Maximum(ra[2], rb[2])>>
        br == <<Minimum(ra[3], rb[3]), Minimum(ra[4], rb[4])>>
    IN  (br[1] - tl[1] + offset) * (br[2] - tl[2] + offset)
            * (IF tl[1] < br[1] /\ tl[2] < br[2] THEN 1 ELSE 0)

\* np.prod(bbox[2:4] - bbox[:2] + offset) for one box
area_box(r, offset) == (r[3] - r[1] + offset) * (r[4] - r[2] + offset)

\* iou_entry with the intersection left in the union twice
iou_entry_sum_union(ra, rb, offset) ==
    Divide(area_i(ra, rb, offset), area_box(ra, offset) + area_box(rb, offset))

\* iou_entry with area_a taken for both boxes
iou_entry_area_a_twice(ra, rb, offset) ==
    Divide(area_i(ra, rb, offset),
           area_box(ra, offset) + area_box(ra, offset) - area_i(ra, rb, offset))

iou_entry(ra, rb, offset) ==
    Divide(area_i(ra, rb, offset),
           area_box(ra, offset) + area_box(rb, offset) - area_i(ra, rb, offset))

bbox_iou(bbox_a, bbox_b, offset) ==
    IF bbox_a.ndim < 2 \/ bbox_b.ndim < 2
    THEN Raise("IndexError")
    ELSE IF bbox_a.cols < 4 \/ bbox_b.cols < 4
    THEN Raise("IndexError")
    ELSE Return([i \in 1..bbox_a.rows |->
                    [j \in 1..bbox_b.rows |->
                        iou_entry(bbox_a.data[i], bbox_b.data[j], offset)]])

(***************************************************************************)
(* bbox_xywh_to_xyxy, bbox_xyxy_to_xywh, bbox_clip_xyxy                    *)
(***************************************************************************)
\* ClampSize without the inclusive-pixel - 1
ClampSizeExclusive(v) == Maximum(v, 0)

ClampSize(v) == Maximum(v - 1, 0)

\* np.maximum(0, a - 1) of a 2-D array
ClampSizes(a) ==
    Array2([i \in 1..a.rows |-> [j \in 1..a.cols |-> ClampSize(a.data[i][j])]], a.cols)

bbox_xywh_to_xyxy(xywh) ==
    IF xywh.kind \in {"tuple", "list"}
    THEN IF Len(xywh.data) # 4
         THEN Raise("IndexError")
         ELSE LET w == ClampSize(xywh.data[3])
                  h == ClampSize(xywh.data[4])
              IN  Return(Tuple(<<xywh.data[1], xywh.data[2],
                                 xywh.data[1] + w, xywh.data[2] + h>>))
    ELSE IF xywh.kind = "ndarray"
    THEN IF Size(xywh) % 4 # 0
         THEN Raise("IndexError")
         ELSE IF xywh.ndim < 2
         THEN Raise("IndexError")
         ELSE LET xy == ColSlice(xywh, 0, 2)
                  wh == ClampSizes(ColSlice(xywh, 2, 4))
              IN  IF ~Broadcasts(xy, wh)
                  THEN Raise("ValueError")
                  ELSE Return(HStack2(xy, AddArrays(xy, wh)))
    ELSE Raise("TypeError")

PlusOne(v) == v + 1

\* a + 1 of a 2-D array
PlusOnes(a) ==
    Array2([i \in 1..a.rows |-> [j \in 1..a.cols |-> PlusOne(a.data[i][j])]], a.cols)

bbox_xyxy_to_xywh(xyxy) ==
    IF xyxy.kind \in {"tuple", "list"}
    THEN IF Len(xyxy.data) # 4
         THEN Raise("IndexError")
         ELSE LET x1 == xyxy.data[1]
                  y1 == xyxy.data[2]
              IN  Return(Tuple(<<x1, y1, xyxy.data[3] - x1 + 1, xyxy.data[4] - y1 + 1>>))
    ELSE IF xyxy.kind = "ndarray"
    THEN IF Size(xyxy) % 4 # 0
         THEN Raise("IndexError")
         ELSE IF xyxy.ndim < 2
         THEN Raise("IndexError")
         ELSE LET xy == ColSlice(xyxy, 0, 2)
                  br == ColSlice(xyxy, 2, 4)
              IN  IF ~Broadcasts(br, xy)
                  THEN Raise("ValueError")
                  ELSE Return(HStack2(xy, PlusOnes(SubArrays(br, xy))))
    ELSE Raise("TypeError")

\* ClipCoord with the upper limit at bound instead of bound - 1
ClipCoordToBound(v, bound) == Minimum(bound, Maximum(0, v))

\* np.minimum(bound - 1, np.maximum(0, v))
ClipCoord(v, bound) == Minimum(bound - 1, Maximum(0, v))

\* the same on xyxy[:, k], k counted from 0
ClipColumn(xyxy, k, bound) == [i \in 1..xyxy.rows |-> ClipCoord(xyxy.data[i][k + 1], bound)]

bbox_clip_xyxy(xyxy, width, height) ==
    IF xyxy.kind \in {"tuple", "list"}
    THEN IF Len(xyxy.data) # 4
         THEN Raise("IndexError")
         ELSE Return(Tuple(<<ClipCoord(xyxy.data[1], width), ClipCoord(xyxy.data[2], height),
                             ClipCoord(xyxy.data[3], width), ClipCoord(xyxy.data[4], height)>>))
    ELSE IF xyxy.kind = "ndarray"
    THEN IF Size(xyxy) % 4 # 0
         THEN Raise("IndexError")
         ELSE IF xyxy.ndim < 2 \/ xyxy.cols < 4
         THEN Raise("IndexError")
         ELSE Return(HStack1(ClipColumn(xyxy, 0, width), ClipColumn(xyxy, 1, height),
                             ClipColumn(xyxy, 2, width), ClipColumn(xyxy, 3, height)))
    ELSE Raise("TypeError")

(***************************************************************************)
(* Plane geometry of the shapely calls polygon_iou makes.  Input points    *)
(* are integer pairs <<x, y>>; a vertex produced by an intersection is     *)
(* the exact rational point <<x, y, w>> = (x/w, y/w), w > 0.  An area is   *)
(* carried doubled, as a fraction <<num, den>> in lowest terms.            *)
(***************************************************************************)
Cross(o, a, b) == (a[1] - o[1]) * (b[2] - o[2]) - (a[2] - o[2]) * (b[1] - o[1])

Dist2(a, b) == (a[1] - b[1]) * (a[1] - b[1]) + (a[2] - b[2]) * (a[2] - b[2])

PointSet(points) == {points[i] : i \in 1..Len(points)}

\* the leftmost of the lowest points: a vertex of the hull
Lowest(S) == CHOOSE p \in S : \A q \in S : p[2] < q[2] \/ (p[2] = q[2] /\ p[1] <= q[1])

\* the hull vertex that follows p counter-clockwise
NextVertex(S, p) ==
    CHOOSE q \in S \ {p} :
        /\ \A r \in S : Cross(p, q, r) >= 0
        /\ \A r \in S : Cross(p, q, r) = 0 => Dist2(p, r) <= Dist2(p, q)

RECURSIVE Wrap(_, _, _, _)
Wrap(S, start, p, acc) ==
    LET q == NextVertex(S, p)
    IN  IF q = start THEN acc ELSE Wrap(S, start, q, Append(acc, q))

\* .convex_hull: the hull's vertices, counter-clockwise (one or two of them
\* when the points coincide or are collinear)
ConvexHull(points) ==
    LET S == PointSet(points)
        p0 == Lowest(S)
    IN  IF Cardinality(S) = 1 THEN <<p0>> ELSE Wrap(S, p0, p0, <<p0>>)

RatReduce(num, den) ==
    LET g == Gcd(Abs(num), Abs(den))
        s == IF den < 0 THEN -1 ELSE 1
    IN  <<(s * num) \div g, (s * den) \div g>>

RatAdd(a, b) == RatReduce(a[1] * b[2] + b[1] * a[2], a[2] * b[2])

Succ(i, len) == IF i = len THEN 1 ELSE i + 1

Pred(i, len) == IF i = 1 THEN len ELSE i - 1

RECURSIVE ShoelaceFrom(_, _)
ShoelaceFrom(poly, i) ==
    IF i > Len(poly)
    THEN <<0, 1>>
    ELSE LET p == poly[i]
             q == poly[Succ(i, Len(poly))]
         IN  RatAdd(RatReduce(p[1] * q[2] - q[1] * p[2], p[3] * q[3]),
                    ShoelaceFrom(poly, i + 1))

\* twice the area of a counter-clockwise polygon of rational points
Area2(poly) == IF Len(poly) < 3 THEN <<0, 1>> ELSE ShoelaceFrom(poly, 1)

Homogeneous(hull) == [i \in 1..Len(hull) |-> <<hull[i][1], hull[i][2], 1>>]

\* twice the area of the convex hull of integer points
HullArea2(points) == Area2(Homogeneous(ConvexHull(points)))[1]

\* signed side of the rational point p against the directed line a -> b
Side(a, b, p) ==
    (b[1] - a[1]) * (p[2] - a[2] * p[3]) - (b[2] - a[2]) * (p[1] - a[1] * p[3])

\* where the segment p q crosses the line a -> b
Crossing(a, b, p, q) ==
    LET dp == Side(a, b, p)
        dq == Side(a, b, q)
        x == dp * q[1] - dq * p[1]
        y == dp * q[2] - dq * p[2]
        w == dp * q[3] - dq * p[3]
        s == IF w < 0 THEN -1 ELSE 1
        g == Gcd(Gcd(Abs(x), Abs(y)), Abs(w))
    IN  <<(s * x) \div g, (s * y) \div g, (s * w) \div g>>

RECURSIVE ClipFrom(_, _, _, _)
ClipFrom(poly, a, b, i) ==
    IF i > Len(poly)
    THEN <<>>
    ELSE LET cur == poly[i]
             prev == poly[Pred(i, Len(poly))]
             curIn == Side(a, b, cur) >= 0
             prevIn == Side(a, b, prev) >= 0
             out == IF curIn
                    THEN IF prevIn THEN <<cur>> ELSE <<Crossing(a, b, prev, cur), cur>>
                    ELSE IF prevIn THEN <<Crossing(a, b, prev, cur)>> ELSE <<>>
         IN  out \o ClipFrom(poly, a, b, i + 1)

RECURSIVE ClipBy(_, _, _)
ClipBy(poly, hull, k) ==
    IF k > Len(hull) \/ Len(poly) = 0
    THEN poly
    ELSE ClipBy(ClipFrom(poly, hull[k], hull[Succ(k, Len(hull))], 1), hull, k + 1)

\* polya.intersection(polyb).area, doubled, of two convex hulls; a hull that
\* is a point or a segment meets nothing in a positive area
InterArea2(hulla, hullb) ==
    IF Len(hulla) < 3 \/ Len(hullb) < 3
    THEN <<0, 1>>
    ELSE Area2(ClipBy(Homogeneous(hulla), hullb, 1))

(***************************************************************************)
(* polygon_iou: the body of the loop for one pair                          *)
(***************************************************************************)
inter_area(polygon_a, polygon_b) == InterArea2(ConvexHull(polygon_a), ConvexHull(polygon_b))

\* union_area as the sum of the two hulls' areas
union_area_sum(polygon_a, polygon_b) == HullArea2(polygon_a) + HullArea2(polygon_b)

union_area(polygon_a, polygon_b) == HullArea2(polygon_a \o polygon_b)

\* pair_iou without the test for a zero area
pair_iou_unguarded(polygon_a, polygon_b) ==
    LET ia == inter_area(polygon_a, polygon_b)
        ua == union_area(polygon_a, polygon_b)
    IN  Divide(ia[1], ia[2] * ua)

pair_iou(polygon_a, polygon_b) ==
    LET ia == inter_area(polygon_a, polygon_b)
        ua == union_area(polygon_a, polygon_b)
    IN  IF ua = 0 \/ ia[1] = 0
        THEN Zero
        ELSE Divide(ia[1], ia[2] * ua)

\* the value stored by the handler of shapely.geos.TopologicalError
topo_iou == Zero

Zeros(N, M) == [i \in 1..N |-> [j \in 1..M |-> Zero]]

SetEntry(mat, i, j, v) == [mat EXCEPT ![i][j] = v]

\* Polygon(points) accepts three or more points and raises ValueError on fewer
PolygonOk(points) == Len(points) >= 3

(***************************************************************************)
(* cheby and coef_trans_polygon.  Reals are fixed-point numbers with Scale *)
(* units to one: a coefficient, a radius sample and an output coordinate   *)
(* are integers counting 1/Scale; quotients round down.                    *)
(***************************************************************************)
Scale == 10 * 100

NumAngles == 360

Mul(a, b) == (a * b) \div Scale

\* cos of 0..90 degrees, in 1/Scale
CosQuarter ==
    <<
       1000, 1000, 999, 999, 998, 996, 995, 993, 990, 988, 985, 982, 978,
       974, 970, 966, 961, 956, 951, 946, 940, 934, 927, 921, 914, 906,
       899, 891, 883, 875, 866, 857, 848, 839, 829, 819, 809, 799, 788,
       777, 766, 755, 743, 731, 719, 707, 695, 682, 669, 656, 643, 629,
       616, 602, 588, 574, 559, 545, 530, 515, 500, 485, 469, 454, 438,
       423, 407, 391, 375, 358, 342, 326, 309, 292, 276, 259, 242, 225,
       208, 191, 174, 156, 139, 122, 105, 87, 70, 52, 35, 17, 0 >>

\* cos and sin of a whole number of degrees in 0..359, as cv.polarToCart
\* with angleInDegrees=True takes it
Cos(deg) ==
    IF deg <= 90 THEN CosQuarter[deg + 1]
    ELSE IF deg <= 180 THEN -CosQuarter[180 - deg + 1]
    ELSE IF deg <= 270 THEN -CosQuarter[deg - 180 + 1]
    ELSE CosQuarter[360 - deg + 1]

Sin(deg) == Cos((deg + 270) % 360)

RECURSIVE SqrtBetween(_, _, _)
SqrtBetween(v, lo, hi) ==
    IF lo >= hi
    THEN lo
    ELSE LET mid == (lo + hi + 1) \div 2
         IN  IF mid * mid <= v THEN SqrtBetween(v, mid, hi) ELSE SqrtBetween(v, lo, mid - 1)

\* np.sqrt of a whole number, in 1/Scale
Sqrt(v) == SqrtBetween(v * Scale * Scale, 0, (v + 1) * Scale)

\* np.linspace(-1, 1, 360)[k], k counted from 0
theta(k) == ((2 * k - (NumAngles - 1)) * Scale) \div (NumAngles - 1)

\* the loop of chebval: for i in range(3, len(c) + 1)
RECURSIVE Clenshaw(_, _, _, _, _)
Clenshaw(c, x2, i, c0, c1) ==
    IF i > Len(c)
    THEN <<c0, c1>>
    ELSE Clenshaw(c, x2, i + 1, c[Len(c) + 1 - i] - c1, c0 + Mul(c1, x2))

\* chebyshev.chebval(x, c) for one coefficient row
chebval(x, c) ==
    LET cc == IF Len(c) = 1 THEN <<c[1], 0>>
              ELSE IF Len(c) = 2 THEN <<c[1], c[2]>>
              ELSE Clenshaw(c, 2 * x, 3, c[Len(c) - 1], c[Len(c)])
    IN  cc[1] + Mul(cc[2], x)

\* cheby(coef)[i][k - 1]: the series of the coefficient row coef[i] at
\* sample k (from 1) of the 360 samples
cheby(coefrow, k) == chebval(theta(k - 1), coefrow)

\* np.clip(v, lo, hi) == minimum(maximum(v, lo), hi)
Clip(v, lo, hi) == Minimum(Maximum(v, lo), hi)

relative_lens(bbox) ==
    LET bboxsw == Abs(bbox[3] - bbox[1])
        bboxsh == Abs(bbox[4] - bbox[2])
    IN  Sqrt(bboxsw * bboxsw + bboxsh * bboxsh)

\* theta_list = np.arange(359, -1, -1): sample k (from 1) is at 360 - k degrees
theta_list(k) == NumAngles - k

\* x and y of sample k of one row after the translation by the center
Translated(coefrow, bbox, center, k) ==
    LET rs == Mul(cheby(coefrow, k), relative_lens(bbox))
    IN  <<Mul(rs, Cos(theta_list(k))) + center[1] * Scale,
          Mul(rs, Sin(theta_list(k))) + center[2] * Scale>>

\* PolygonPoint with the clip applied before the translation by the center
PolygonPointClipFirst(coefrow, bbox, center, k) ==
    LET t == Translated(coefrow, bbox, <<0, 0>>, k)
    IN  <<Clip(t[1], bbox[1] * Scale, bbox[3] * Scale) + center[1] * Scale,
          Clip(t[2], bbox[2] * Scale, bbox[4] * Scale) + center[2] * Scale>>

\* one output point: the translated point clipped to the row's own box
PolygonPoint(coefrow, bbox, center, k) ==
    LET t == Translated(coefrow, bbox, center, k)
    IN  <<Clip(t[1], bbox[1] * Scale, bbox[3] * Scale),
          Clip(t[2], bbox[2] * Scale, bbox[4] * Scale)>>

coef_trans_polygon(coefs, bboxs, centers) ==
    Return([i \in 1..Len(coefs) |->
               [k \in 1..NumAngles |-> PolygonPoint(coefs[i], bboxs[i], centers[i], k)]])

(***************************************************************************)
(* Inputs.                                                                 *)
(***************************************************************************)
Xs == 0..MaxX

Ys == 0..MaxY

\* every 4-number row over the grid, valid, degenerate or inverted
Boxes == {<<x1, y1, x2, y2>> : x1 \in Xs, y1 \in Ys, x2 \in Xs, y2 \in Ys}

Offsets == {-1, 0, 1}

SecondBoxes == {<<0, 0, 1, 1>>, <<1, 0, 2, 1>>}

BoxTables == {Table(<<b>>) : b \in Boxes}
                \cup {Table(<<b, c>>) : b \in Boxes, c \in SecondBoxes}

ProbeTables == {Table(<<b>>) : b \in Boxes}
                  \cup {Table(<<<<0, 0, 1, 1>>, <<1, 0, 2, 1>>>>), Table(<<<<0, 0, 2, 1>>, <<1, 1, 0, 0>>>>)}

\* arrays of every shape up to MaxRows x MaxCols, and 1-D arrays
Fill(r, c, v) == [i \in 1..r |-> [j \in 1..c |-> v + ((i + j) % 3)]]

ShapedArrays == {Array2(Fill(r, c, v), c) : r \in 1..MaxRows, c \in 1..MaxCols, v \in {0, 1}}
                    \cup {Array1([j \in 1..c |-> j]) : c \in 1..MaxCols}

Tuples == {Tuple(<<x, y, w, h>>) : x \in Xs, y \in Ys, w \in -1..MaxX + 1, h \in -1..MaxY + 1}

\* tuples and lists that do not hold 4 numbers
BadTuples == {[kind |-> k, data |-> [j \in 1..c |-> j]] : k \in {"tuple", "list"}, c \in (0..MaxCols) \ {4}}

\* values that are neither list, tuple nor array
Others == {[kind |-> "str"], [kind |-> "NoneType"]}

BoxArgs == Tuples \cup BadTuples \cup Others \cup BoxTables \cup ShapedArrays

Widths == 0..MaxX + 1

Heights == 0..MaxY + 1

\* polygons: every triple of points of the grid, among them the degenerate
\* ones (repeated and collinear points)
Points == {<<x, y>> : x \in Xs, y \in Ys}

Triangles == {<<p, q, r>> : p \in Points, q \in Points, r \in Points}

ProbeTriangles == {<<<<0, 0>>, <<1, 0>>, <<1, 1>>>>, <<<<0, 0>>, <<1, 0>>, <<0, 1>>>>,
                   <<<<0, 0>>, <<1, 0>>, <<0, 0>>>>, <<<<1, 1>>, <<1, 1>>, <<1, 1>>>>}

ProbePolygons == {<<<<0, 0>>, <<2, 0>>, <<2, 1>>, <<0, 1>>>>,
                  <<<<1, 0>>, <<2, 1>>, <<0, 1>>, <<1, 1>>>>}

ProbeCollections == {<<p>> : p \in ProbePolygons}
                        \cup {<<<<<<0, 0>>, <<2, 0>>, <<2, 1>>, <<0, 1>>>>, <<<<0, 0>>, <<1, 0>>, <<2, 0>>, <<1, 0>>>>>>}
                        \cup {<<<<<<0, 0>>, <<1, 1>>>>>>}

PolygonCollections == {<<t>> : t \in Triangles}
                         \cup {<<t, <<<<0, 0>>, <<1, 0>>, <<0, 1>>>>>> : t \in ProbeTriangles}
                         \cup {<<<<<<0, 0>>, <<1, 1>>>>>>}

CoefRows == {<<500, 0, 0>>, <<300, 200, -100>>, <<-200, 100, 50, 400>>}

Centers == {<<1, 0>>, <<MaxX, MaxY>>}

(***************************************************************************)
(* The calls.                                                              *)
(***************************************************************************)
Idle ==
    /\ pc = "call"
    /\ result = None
    /\ n = 0
    /\ m = 0
    /\ polygon_ious = <<>>
    /\ topo = <<>>

Init ==
    /\ Idle
    /\ \/ /\ fn = "bbox_iou"
          /\ \/ arg \in [bbox_a : BoxTables, bbox_b : ProbeTables, offset : Offsets]
             \/ arg \in [bbox_a : ShapedArrays, bbox_b : {Table(<<<<0, 0, 1, 1>>>>)}, offset : {0}]
             \/ arg \in [bbox_a : {Table(<<<<0, 0, 1, 1>>>>)}, bbox_b : ShapedArrays, offset : {0}]
       \/ /\ fn \in {"bbox_xywh_to_xyxy", "bbox_xyxy_to_xywh"}
          /\ arg \in [box : BoxArgs]
       \/ /\ fn = "bbox_clip_xyxy"
          /\ arg \in [box : BoxArgs, width : Widths, height : Heights]
       \/ /\ fn = "roundtrip"
          /\ arg \in [box : Tuples \cup BoxTables]
       \/ /\ fn = "polygon_iou"
          /\ \/ \E P \in PolygonCollections : arg = [polygon_as |-> P, polygon_bs |-> P]
             \/ arg \in [polygon_as : PolygonCollections, polygon_bs : ProbeCollections]
       \/ /\ fn = "coef_trans_polygon"
          /\ \/ \E c \in CoefRows, b \in Boxes, o \in Centers :
                    arg = [coefs |-> <<c>>, bboxs |-> <<b>>, centers |-> <<o>>]
             \/ \E c \in CoefRows, b \in Boxes, o \in Centers :
                    arg = [coefs |-> <<<<500, 0, 0>>, c>>, bboxs |-> <<<<0, 0, 1, 1>>, b>>,
                           centers |-> <<<<0, 0>>, o>>]

Finish(r) ==
    /\ result' = r
    /\ pc' = "done"
    /\ UNCHANGED <<fn, arg, n, m, polygon_ious, topo>>

Call_bbox_iou ==
    /\ pc = "call" /\ fn = "bbox_iou"
    /\ Finish(bbox_iou(arg.bbox_a, arg.bbox_b, arg.offset))

Call_bbox_xywh_to_xyxy ==
    /\ pc = "call" /\ fn = "bbox_xywh_to_xyxy"
    /\ Finish(bbox_xywh_to_xyxy(arg.box))

Call_bbox_xyxy_to_xywh ==
    /\ pc = "call" /\ fn = "bbox_xyxy_to_xywh"
    /\ Finish(bbox_xyxy_to_xywh(arg.box))

Call_bbox_clip_xyxy ==
    /\ pc = "call" /\ fn = "bbox_clip_xyxy"
    /\ Finish(bbox_clip_xyxy(arg.box, arg.width, arg.height))

\* bbox_xyxy_to_xywh(bbox_xywh_to_xyxy(box))
Call_roundtrip ==
    /\ pc = "call" /\ fn = "roundtrip"
    /\ LET r == bbox_xywh_to_xyxy(arg.box)
       IN  Finish(IF r.kind = "raise" THEN r ELSE bbox_xyxy_to_xywh(r.value))

Call_coef_trans_polygon ==
    /\ pc = "call" /\ fn = "coef_trans_polygon"
    /\ Finish(coef_trans_polygon(arg.coefs, arg.bboxs, arg.centers))

\* polygon_iou, lines 64-66
Call_polygon_iou ==
    /\ pc = "call" /\ fn = "polygon_iou"
    /\ polygon_ious' = Zeros(Len(arg.polygon_as), Len(arg.polygon_bs))
    /\ topo' = [i \in 1..Len(arg.polygon_as) |-> [j \in 1..Len(arg.polygon_bs) |-> "unvisited"]]
    /\ n' = 1
    /\ pc' = "for_n"
    /\ UNCHANGED <<fn, arg, result, m>>

\* for n in range(N): polygon_a = polygon_as[n]; polya = Polygon(polygon_a).convex_hull
OuterStep ==
    /\ pc = "for_n" /\ n <= Len(arg.polygon_as)
    /\ PolygonOk(arg.polygon_as[n])
    /\ m' = 1
    /\ pc' = "for_m"
    /\ UNCHANGED <<fn, arg, result, n, polygon_ious, topo>>

OuterRaise ==
    /\ pc = "for_n" /\ n <= Len(arg.polygon_as)
    /\ ~PolygonOk(arg.polygon_as[n])
    /\ result' = Raise("ValueError")
    /\ pc' = "done"
    /\ UNCHANGED <<fn, arg, n, m, polygon_ious, topo>>

\* return polygon_ious
OuterExit ==
    /\ pc = "for_n" /\ n > Len(arg.polygon_as)
    /\ result' = Return(polygon_ious)
    /\ pc' = "done"
    /\ UNCHANGED <<fn, arg, n, m, polygon_ious, topo>>

\* the body of the inner loop when shapely raises nothing
PairStep ==
    /\ pc = "for_m" /\ m <= Len(arg.polygon_bs)
    /\ PolygonOk(arg.polygon_bs[m])
    /\ polygon_ious' = SetEntry(polygon_ious, n, m, pair_iou(arg.polygon_as[n], arg.polygon_bs[m]))
    /\ topo' = SetEntry(topo, n, m, "computed")
    /\ m' = m + 1
    /\ UNCHANGED <<fn, arg, result, n, pc>>

\* the body of the inner loop when polya.intersection(polyb) raises
\* TopologicalError: the handler stores 0 and continues
PairTopologicalError ==
    /\ pc = "for_m" /\ m <= Len(arg.polygon_bs)
    /\ PolygonOk(arg.polygon_bs[m])
    /\ polygon_ious' = SetEntry(polygon_ious, n, m, topo_iou)
    /\ topo' = SetEntry(topo, n, m, "TopologicalError")
    /\ m' = m + 1
    /\ UNCHANGED <<fn, arg, result, n, pc>>

\* Polygon(polygon_b) raises outside the try block
PairRaise ==
    /\ pc = "for_m" /\ m <= Len(arg.polygon_bs)
    /\ ~PolygonOk(arg.polygon_bs[m])
    /\ result' = Raise("ValueError")
    /\ pc' = "done"
    /\ UNCHANGED <<fn, arg, n, m, polygon_ious, topo>>

InnerExit ==
    /\ pc = "for_m" /\ m > Len(arg.polygon_bs)
    /\ n' = n + 1
    /\ pc' = "for_n"
    /\ UNCHANGED <<fn, arg, result, m, polygon_ious, topo>>

Next ==
    \/ Call_bbox_iou
    \/ Call_bbox_xywh_to_xyxy
    \/ Call_bbox_xyxy_to_xywh
    \/ Call_bbox_clip_xyxy
    \/ Call_roundtrip
    \/ Call_coef_trans_polygon
    \/ Call_polygon_iou
    \/ OuterStep
    \/ OuterRaise
    \/ OuterExit
    \/ PairStep
    \/ PairTopologicalError
    \/ PairRaise
    \/ InnerExit

Spec == Init /\ [][Next]_vars

(***************************************************************************)
(* Properties.                                                             *)
(***************************************************************************)
Done(f) == fn = f /\ pc = "done"

Returned(f) == Done(f) /\ result.kind = "return"

IsTable(a) == a.kind = "ndarray" /\ a.ndim = 2 /\ a.cols = 4

InRange(v, lo, hi) == lo <= v /\ v <= hi

ValidBox(b) == b[1] <= b[3] /\ b[2] <= b[4]

PointInBox(p, b) ==
    /\ InRange(p[1], b[1] * Scale, b[3] * Scale)
    /\ InRange(p[2], b[2] * Scale, b[4] * Scale)

\* C1, as stated: every one of the 360 points of every row of
\* coef_trans_polygon lies in the row's box [xmin, xmax] x [ymin, ymax],
\* whatever the box is.
C1_AnyBox ==
    Returned("coef_trans_polygon") =>
        \A i \in 1..Len(arg.bboxs) : \A k \in 1..NumAngles :
            PointInBox(result.value[i][k], arg.bboxs[i])

\* C1, amended: every one of the 360 points of every row of
\* coef_trans_polygon lies in the row's box, for every row whose box has
\* xmin <= xmax and ymin <= ymax.
C1_ValidBox ==
    Returned("coef_trans_polygon") =>
        /\ Len(result.value) = Len(arg.bboxs)
        /\ \A i \in 1..Len(arg.bboxs) :
              /\ Len(result.value[i]) = NumAngles
              /\ ValidBox(arg.bboxs[i]) =>
                    \A k \in 1..NumAngles : PointInBox(result.value[i][k], arg.bboxs[i])

\* a second row with a box of positive size, one of whose translated points
\* falls outside the box and is returned clipped onto the box's edge
C1_Witness ==
    /\ Returned("coef_trans_polygon")
    /\ Len(arg.bboxs) = 2
    /\ arg.bboxs[2][1] < arg.bboxs[2][3] /\ arg.bboxs[2][2] < arg.bboxs[2][4]
    /\ arg.bboxs[2] # arg.bboxs[1]
    /\ \E k \in 1..NumAngles :
          LET t == Translated(arg.coefs[2], arg.bboxs[2], arg.centers[2], k)
          IN  /\ t[1] > arg.bboxs[2][3] * Scale
              /\ result.value[2][k][1] = arg.bboxs[2][3] * Scale

SameBox(i, j) == arg.bbox_a.data[i] = arg.bbox_b.data[j]

Pairs == {<<i, j>> : i \in 1..arg.bbox_a.rows, j \in 1..arg.bbox_b.rows}

\* C2, as stated: the IOU of any box with itself is exactly 1, for every
\* offset.
C2_AnyBox ==
    Returned("bbox_iou") =>
        \A ij \in Pairs : SameBox(ij[1], ij[2]) => result.value[ij[1]][ij[2]] = One

\* C2, amended: the IOU of a box with itself is exactly 1 when the box has
\* xmin < xmax and ymin < ymax and (xmax - xmin + offset) * (ymax - ymin +
\* offset) is not 0.
C2_ProperBox ==
    Returned("bbox_iou") =>
        \A ij \in Pairs :
            LET b == arg.bbox_a.data[ij[1]]
            IN  /\ SameBox(ij[1], ij[2])
                /\ b[1] < b[3] /\ b[2] < b[4]
                /\ (b[3] - b[1] + arg.offset) * (b[4] - b[2] + arg.offset) # 0
                => result.value[ij[1]][ij[2]] = One

C2_Witness ==
    /\ Returned("bbox_iou")
    /\ arg.bbox_a = arg.bbox_b
    /\ arg.bbox_a.data = <<<<0, 0, 2, 1>>>>
    /\ arg.offset = 1
    /\ result.value = <<<<One>>>>

Disjoint(a, b) == a[3] < b[1] \/ b[3] < a[1] \/ a[4] < b[2] \/ b[4] < a[2]

OffsetArea(b) == (b[3] - b[1] + arg.offset) * (b[4] - b[2] + arg.offset)

\* C3, as stated: the IOU of two disjoint boxes is exactly 0, for every
\* offset.
C3_AnyDisjoint ==
    Returned("bbox_iou") =>
        \A ij \in Pairs :
            Disjoint(arg.bbox_a.data[ij[1]], arg.bbox_b.data[ij[2]])
                => result.value[ij[1]][ij[2]] = Zero

\* C3, amended: the IOU of two disjoint boxes is exactly 0 whenever the two
\* boxes' areas (xmax - xmin + offset) * (ymax - ymin + offset) do not add
\* up to 0.
C3_DisjointNonzeroAreas ==
    Returned("bbox_iou") =>
        \A ij \in Pairs :
            LET a == arg.bbox_a.data[ij[1]]
                b == arg.bbox_b.data[ij[2]]
            IN  Disjoint(a, b) /\ OffsetArea(a) + OffsetArea(b) # 0
                    => result.value[ij[1]][ij[2]] = Zero

C3_Witness ==
    /\ Returned("bbox_iou")
    /\ arg.bbox_a.data = <<<<0, 0, 0, 1>>>>
    /\ arg.bbox_b.data = <<<<1, 0, 2, 1>>>>
    /\ arg.offset = 1
    /\ result.value = <<<<Zero>>>>

\* C4: entry (i, j) of bbox_iou(A, B, offset) equals entry (j, i) of
\* bbox_iou(B, A, offset), and the two matrices have transposed shapes.
C4_Transpose ==
    Returned("bbox_iou") =>
        LET swapped == bbox_iou(arg.bbox_b, arg.bbox_a, arg.offset)
        IN  /\ swapped.kind = "return"
            /\ Len(swapped.value) = arg.bbox_b.rows
            /\ Len(result.value) = arg.bbox_a.rows
            /\ \A ij \in Pairs :
                  /\ Len(result.value[ij[1]]) = arg.bbox_b.rows
                  /\ Len(swapped.value[ij[2]]) = arg.bbox_a.rows
                  /\ result.value[ij[1]][ij[2]] = swapped.value[ij[2]][ij[1]]

\* a 2 x 1 result whose two entries differ, the first a proper fraction
C4_Witness ==
    /\ Returned("bbox_iou")
    /\ arg.bbox_a.rows = 2 /\ arg.bbox_b.rows = 1
    /\ result.value[1][1] # result.value[2][1]
    /\ result.value[1][1] \notin {Zero, One, NaN, Inf, NegInf}
    /\ result.value[2][1] # NaN

\* C5: bbox_xyxy_to_xywh(bbox_xywh_to_xyxy(b)) is b again for every box
\* b = (x, y, w, h) with w >= 1 and h >= 1, given as a tuple or as the rows
\* of a table.
C5_RoundTrip ==
    Done("roundtrip") =>
        /\ arg.box.kind = "tuple" /\ arg.box.data[3] >= 1 /\ arg.box.data[4] >= 1
              => result = Return(arg.box)
        /\ (/\ arg.box.kind = "ndarray"
            /\ \A i \in 1..arg.box.rows : arg.box.data[i][3] >= 1 /\ arg.box.data[i][4] >= 1)
              => result = Return(arg.box)

C5_Witness ==
    /\ Done("roundtrip")
    /\ arg.box = Tuple(<<1, 1, 3, 2>>)
    /\ result = Return(Tuple(<<1, 1, 3, 2>>))

\* the x entries and the y entries of what bbox_clip_xyxy returns: a tuple
\* (x1, y1, x2, y2), or for a table the 1-D array x1s, y1s, x2s, y2s
ClipXs ==
    IF result.value.kind = "tuple"
    THEN {result.value.data[1], result.value.data[3]}
    ELSE {result.value.data[q] : q \in {q \in 1..Len(result.value.data) :
                                           ((q - 1) \div arg.box.rows) % 2 = 0}}

ClipYs ==
    IF result.value.kind = "tuple"
    THEN {result.value.data[2], result.value.data[4]}
    ELSE {result.value.data[q] : q \in {q \in 1..Len(result.value.data) :
                                           ((q - 1) \div arg.box.rows) % 2 = 1}}

\* C6, as stated: every x that bbox_clip_xyxy returns is in [0, width - 1]
\* and every y in [0, height - 1], for every width and height.
C6_AnyBounds ==
    Returned("bbox_clip_xyxy") =>
        /\ \A x \in ClipXs : InRange(x, 0, arg.width - 1)
        /\ \A y \in ClipYs : InRange(y, 0, arg.height - 1)

\* C6, amended: every x that bbox_clip_xyxy returns is in [0, width - 1]
\* and every y in [0, height - 1], when width >= 1 and height >= 1.
C6_PositiveBounds ==
    Returned("bbox_clip_xyxy") /\ arg.width >= 1 /\ arg.height >= 1 =>
        /\ Len(result.value.data) = 4 * (IF arg.box.kind = "tuple" THEN 1 ELSE arg.box.rows)
        /\ \A x \in ClipXs : InRange(x, 0, arg.width - 1)
        /\ \A y \in ClipYs : InRange(y, 0, arg.height - 1)

\* a coordinate above the bound comes back as the bound
C6_Witness ==
    /\ Returned("bbox_clip_xyxy")
    /\ arg.box = Tuple(<<2, 1, 3, -1>>)
    /\ arg.width = 2 /\ arg.height = 1
    /\ result.value = Tuple(<<1, 0, 1, 0>>)

PolyPairs == {<<i, j>> : i \in 1..Len(arg.polygon_as), j \in 1..Len(arg.polygon_bs)}

Visited(i, j) == topo[i][j] # "unvisited"

\* a pair on which the geometry degenerates
Degenerate(i, j) ==
    \/ topo[i][j] = "TopologicalError"
    \/ /\ topo[i][j] = "computed"
       /\ \/ HullArea2(arg.polygon_as[i] \o arg.polygon_bs[j]) = 0
          \/ InterArea2(ConvexHull(arg.polygon_as[i]), ConvexHull(arg.polygon_bs[j]))[1] = 0

\* C7: in polygon_iou a pair with a zero intersection area, a zero union
\* area or a TopologicalError gets the entry 0; no error ever ends a call
\* that has processed a pair; and the call returns the N x M matrix with
\* every pair processed.
C7_DegeneracyRecovered ==
    fn = "polygon_iou" /\ pc # "call" =>
        /\ \A ij \in PolyPairs :
              Visited(ij[1], ij[2]) /\ Degenerate(ij[1], ij[2])
                  => polygon_ious[ij[1]][ij[2]] = Zero
        /\ pc = "done" /\ result.kind = "raise"
              => \A ij \in PolyPairs : ~Visited(ij[1], ij[2])
        /\ pc = "done" /\ result.kind = "return"
              => /\ result.value = polygon_ious
                 /\ Len(result.value) = Len(arg.polygon_as)
                 /\ \A ij \in PolyPairs :
                       /\ Len(result.value[ij[1]]) = Len(arg.polygon_bs)
                       /\ Visited(ij[1], ij[2])

\* a call whose first pair has a zero union area and whose second pair met
\* a TopologicalError, and which still went on to the last pair and returned
C7_Witness ==
    /\ Returned("polygon_iou")
    /\ Len(arg.polygon_as) = 2 /\ Len(arg.polygon_bs) = 2
    /\ topo[1][1] = "computed" /\ result.value[1][1] = Zero
    /\ HullArea2(arg.polygon_as[1] \o arg.polygon_bs[1]) = 0
    /\ topo[1][2] = "TopologicalError" /\ result.value[1][2] = Zero
    /\ topo[2][2] = "computed" /\ result.value[2][2] = One

NotCollinear(points) ==
    \E i, j, k \in 1..Len(points) : Cross(points[i], points[j], points[k]) # 0

BadBox(b) ==
    \/ b.kind \in {"tuple", "list"} /\ Len(b.data) # 4
    \/ b.kind = "ndarray" /\ ~IsTable(b)
    \/ b.kind \notin {"tuple", "list", "ndarray"}

\* a table with fewer than 4 columns
FewColumns(a) == a.ndim = 2 /\ a.cols < 4

\* C9: every shape or type violation ends the call with an error: bbox_iou
\* on a table with fewer than 4 columns; the converters and the clip on a
\* list or tuple of a length other than 4, on an array that is not N x 4,
\* and (with a TypeError) on anything that is no list, tuple or array.
C9_ViolationsRaise ==
    /\ Done("bbox_iou") /\ (FewColumns(arg.bbox_a) \/ FewColumns(arg.bbox_b))
          => result.kind = "raise"
    /\ \A f \in {"bbox_xywh_to_xyxy", "bbox_xyxy_to_xywh", "bbox_clip_xyxy"} :
          Done(f) /\ BadBox(arg.box) =>
              /\ result.kind = "raise"
              /\ arg.box.kind \notin {"tuple", "list", "ndarray"} => result.exc = "TypeError"

\* what the tuple form of the called function returns for one row
SingleForm(row) ==
    IF fn = "bbox_xywh_to_xyxy" THEN bbox_xywh_to_xyxy(Tuple(row))
    ELSE IF fn = "bbox_xyxy_to_xywh" THEN bbox_xyxy_to_xywh(Tuple(row))
    ELSE bbox_clip_xyxy(Tuple(row), arg.width, arg.height)

\* C10: on an N x 4 table each of bbox_xywh_to_xyxy, bbox_xyxy_to_xywh and
\* bbox_clip_xyxy returns the N x 4 table whose row i is what its tuple
\* form returns for row i of the input.
C10_TableIsRowwise ==
    \A f \in {"bbox_xywh_to_xyxy", "bbox_xyxy_to_xywh", "bbox_clip_xyxy"} :
        Done(f) /\ IsTable(arg.box) =>
            result = Return(Table([i \in 1..arg.box.rows |-> SingleForm(arg.box.data[i]).value.data]))

====
